---- MODULE Spec2Model ----
(***************************************************************************)
(* Model of the plaingrain orchestrator (src/server.js):                   *)
(*   - the parse-and-harden block of POST /agent/listing-suggest, applied  *)
(*     to a bounded universe of model outputs and request bodies;          *)
(*   - POST /sync/user run by several concurrent requests against the      *)
(*     ingested_events / users_ai tables;                                  *)
(*   - POST /agent/user-chat and POST /agent/listing-suggest as whole      *)
(*     handlers: verifySecret, validation, prompt selection, provider      *)
(*     call, hardening and the ai_interactions insert.                     *)
(***************************************************************************)
EXTENDS Integers, Sequences, FiniteSets, TLC

(***************************************************************************)
(* Bounds of the model.                                                    *)
(***************************************************************************)
\* longest run of whitespace put before / after a description body
MaxPad == 1
\* longest missingFields array the model output may carry
MaxMissing == 2
\* number of concurrent /sync/user requests
NumReqs == 2

(***************************************************************************)
(* JavaScript values.  Every value is a record tagged by t; the payload    *)
(* field has a different name per tag so that values of different types    *)
(* are comparable.                                                         *)
(***************************************************************************)
Undefined == [t |-> "undefined"]
JNull == [t |-> "null"]
JBool(b) == [t |-> "boolean", b |-> b]
JNum(n) == [t |-> "number", n |-> n, finite |-> TRUE]
JInfinity == [t |-> "number", n |-> 0, finite |-> FALSE]
JStr(s) == [t |-> "string", s |-> s]
JArr(items) == [t |-> "array", items |-> items]
\* { value, currency, unit }
JPrice(v, c, u) == [t |-> "object", value |-> v, currency |-> c, unit |-> u]
\* the object the handler calls `parsed`; kind is "object" or "array"
\* (an array carries the same named properties once they are assigned)
JParsed(kind, d, ps, c, mf) ==
  [t |-> kind, description |-> d, priceSuggestion |-> ps,
   confidence |-> c, missingFields |-> mf]

\* typeof v
TypeOf(v) ==
  CASE v.t = "undefined" -> "undefined"
    [] v.t = "boolean" -> "boolean"
    [] v.t = "number" -> "number"
    [] v.t = "string" -> "string"
    [] OTHER -> "object"

\* ToBoolean(v), as used by `ps && ...`, `!header`, `!category`
Truthy(v) ==
  CASE v.t = "undefined" -> FALSE
    [] v.t = "null" -> FALSE
    [] v.t = "boolean" -> v.b
    [] v.t = "number" -> v.finite => v.n # 0
    [] v.t = "string" -> v.s # ""
    [] OTHER -> TRUE

\* Number.isFinite(v)
NumberIsFinite(v) == v.t = "number" /\ v.finite

\* Array.isArray(v)
ArrayIsArray(v) == v.t = "array"

\* destructuring default: `x = d` applies only when the property is undefined
Default(v, d) == IF v = Undefined THEN d ELSE v

(***************************************************************************)
(* String.prototype.trim                                                   *)
(***************************************************************************)
IsWhiteSpace(c) == c \in {" ", "\t", "\n", "\r"}

RECURSIVE TrimStart(_)
TrimStart(s) ==
  IF Len(s) > 0 /\ IsWhiteSpace(SubSeq(s, 1, 1))
    THEN TrimStart(SubSeq(s, 2, Len(s)))
    ELSE s

RECURSIVE TrimEnd(_)
TrimEnd(s) ==
  IF Len(s) > 0 /\ IsWhiteSpace(SubSeq(s, Len(s), Len(s)))
    THEN TrimEnd(SubSeq(s, 1, Len(s) - 1))
    ELSE s

Trim(s) == TrimEnd(TrimStart(s))

(***************************************************************************)
(* Raw model output: the text of completion.choices[0].message.content,    *)
(* kept as its syntax tree.  syn = "garbage" is text that is not JSON,     *)
(* syn = "empty" is a null or empty content.  Number tokens keep their     *)
(* literal; a member that does not occur in an object is Absent.           *)
(***************************************************************************)
Absent == [syn |-> "absent"]
TNull == [syn |-> "null"]
TTrue == [syn |-> "true"]
TFalse == [syn |-> "false"]
TNumber(lit) == [syn |-> "number", lit |-> lit]
TString(chars) == [syn |-> "string", chars |-> chars]
TArray(elems) == [syn |-> "array", elems |-> elems]
TPrice(v, c, u) == [syn |-> "object", value |-> v, currency |-> c, unit |-> u]
TObject(d, ps, c, mf) ==
  [syn |-> "object", description |-> d, priceSuggestion |-> ps,
   confidence |-> c, missingFields |-> mf]
TGarbage == [syn |-> "garbage"]
TEmpty == [syn |-> "empty"]

\* the number a JSON number token denotes; a literal beyond the double range
\* parses to Infinity
NumberOf(lit) ==
  CASE lit = "0" -> JNum(0)
    [] lit = "5" -> JNum(5)
    [] lit = "120" -> JNum(120)
    [] lit = "1e999" -> JInfinity

\* JSON.parse of a token that is not a container
ParseScalar(tok) ==
  CASE tok.syn = "absent" -> Undefined
    [] tok.syn = "null" -> JNull
    [] tok.syn = "true" -> JBool(TRUE)
    [] tok.syn = "false" -> JBool(FALSE)
    [] tok.syn = "number" -> NumberOf(tok.lit)
    [] tok.syn = "string" -> JStr(tok.chars)

\* JSON.parse of the priceSuggestion member
ParsePrice(tok) ==
  IF tok.syn = "object"
    THEN JPrice(ParseScalar(tok.value), ParseScalar(tok.currency),
                ParseScalar(tok.unit))
    ELSE ParseScalar(tok)

\* JSON.parse of the missingFields member
ParseList(tok) ==
  IF tok.syn = "array"
    THEN JArr([i \in 1..Len(tok.elems) |-> ParseScalar(tok.elems[i])])
    ELSE ParseScalar(tok)

\* the keys of the response envelope, which an object of the model may
\* carry next to the four members of a suggestion
EnvelopeKeys == {"success", "interactionId"}

\* rec with the members `more` added (more = << >> adds none)
WithKeys(rec, more) == IF DOMAIN more = {} THEN rec ELSE rec @@ more

\* JSON.parse(raw): ok = FALSE when it throws SyntaxError
JSONParse(raw) ==
  CASE raw.syn = "garbage" -> [ok |-> FALSE, value |-> Undefined]
    [] raw.syn = "object" ->
         [ok |-> TRUE,
          value |->
            WithKeys(JParsed("object", ParseScalar(raw.description),
                             ParsePrice(raw.priceSuggestion),
                             ParseScalar(raw.confidence),
                             ParseList(raw.missingFields)),
                     [k \in DOMAIN raw \cap EnvelopeKeys |->
                        ParseScalar(raw[k])])]
    [] raw.syn = "array" ->
         [ok |-> TRUE,
          value |-> JParsed("array", Undefined, Undefined, Undefined,
                            Undefined)]
    [] OTHER -> [ok |-> TRUE, value |-> ParseScalar(raw)]

(***************************************************************************)
(* POST /agent/listing-suggest: parse and harden (src/server.js 334-381)   *)
(***************************************************************************)
\* description.trim().length below this is "too short"
MinDescLen == 120

InvalidJsonMsg == JStr("AI returned invalid JSON - try again")
PriceIncompleteMsg == JStr("Price suggestion incomplete")
DescMissingMsg == JStr("Description missing")
DescTooShortMsg == JStr("Description too short")
Low == JStr("low")

\* completion.choices?.[0]?.message?.content || "{}"
ContentOrDefault(content) ==
  IF content.syn = "empty" THEN TObject(Absent, Absent, Absent, Absent)
                           ELSE content

\* the object assigned in the catch of JSON.parse
ParseFallback(currency, unit) ==
  JParsed("object", JStr(""), JPrice(JNum(0), currency, unit), Low,
          JArr(<<InvalidJsonMsg>>))

\* try { parsed = JSON.parse(raw) } catch { parsed = fallback }
ParseOrFallback(raw, currency, unit) ==
  IF JSONParse(raw).ok THEN JSONParse(raw).value
                       ELSE ParseFallback(currency, unit)

\* v.key for a key of the price object; a primitive has no such property
Prop(v, key) ==
  IF v.t = "object"
    THEN CASE key = "value" -> v.value
           [] key = "currency" -> v.currency
           [] key = "unit" -> v.unit
    ELSE Undefined

\* arr.includes(v)
Includes(arr, v) == \E i \in 1..Len(arr.items) : arr.items[i] = v

\* the entry put in front of the array
Push_Unshift(arr, v) == JArr(<<v>> \o arr.items)

\* arr.push(v)
Push(arr, v) == JArr(Append(arr.items, v))

\* `parsed.missingFields` / `parsed.missingFields = []` raise TypeError when
\* parsed is null (property read) or a primitive (assignment in module code,
\* which is strict)
HardenThrows(p) == p.t \notin {"object", "array"}

\* if (!Array.isArray(parsed.missingFields)) parsed.missingFields = [];
CoerceMissingFields(p) ==
  IF ~ArrayIsArray(p.missingFields)
    THEN [p EXCEPT !.missingFields = JArr(<<>>)]
    ELSE p

\* if (!["low","medium","high"].includes(parsed.confidence)) ...
CoerceConfidence(p) ==
  IF ~Includes(JArr(<<JStr("low"), JStr("medium"), JStr("high")>>),
               p.confidence)
    THEN [p EXCEPT !.confidence = Low]
    ELSE p

\* psOk without the Number.isFinite test
psOk_NoFiniteCheck(ps) ==
  /\ Truthy(ps)
  /\ TypeOf(Prop(ps, "value")) = "number"
  /\ TypeOf(Prop(ps, "currency")) = "string"
  /\ TypeOf(Prop(ps, "unit")) = "string"

\* const psOk = ps && typeof ps.value === "number" && ...
psOk(ps) ==
  /\ Truthy(ps)
  /\ TypeOf(Prop(ps, "value")) = "number"
  /\ NumberIsFinite(Prop(ps, "value"))
  /\ TypeOf(Prop(ps, "currency")) = "string"
  /\ TypeOf(Prop(ps, "unit")) = "string"

\* the price repair without `parsed.confidence = "low"`
ValidatePrice_KeepsConfidence(p, currency, unit) ==
  IF ~psOk(p.priceSuggestion)
    THEN [p EXCEPT !.priceSuggestion = JPrice(JNum(0), currency, unit),
                   !.missingFields = Push(@, PriceIncompleteMsg)]
    ELSE p

\* if (!psOk) { ... }
ValidatePrice(p, currency, unit) ==
  IF ~psOk(p.priceSuggestion)
    THEN [p EXCEPT !.priceSuggestion = JPrice(JNum(0), currency, unit),
                   !.confidence = Low,
                   !.missingFields = Push(@, PriceIncompleteMsg)]
    ELSE p

\* if (typeof parsed.description !== "string") { ... }
\* the type check repairing the description without a diagnostic
ValidateDescription_Silent(p) ==
  IF TypeOf(p.description) # "string"
    THEN [p EXCEPT !.description = JStr(""), !.confidence = Low]
    ELSE p

\* if (typeof parsed.description !== "string") { ... }
ValidateDescription(p) ==
  IF TypeOf(p.description) # "string"
    THEN [p EXCEPT !.description = JStr(""),
                   !.confidence = Low,
                   !.missingFields = Push(@, DescMissingMsg)]
    ELSE p

\* the length check storing the trimmed description back
LengthCheck_StoresTrimmed(p) ==
  IF Len(Trim(p.description.s)) < MinDescLen
    THEN [p EXCEPT !.description = JStr(Trim(@.s)),
                   !.confidence = Low,
                   !.missingFields =
                      IF ~Includes(@, DescTooShortMsg)
                        THEN Push(@, DescTooShortMsg)
                        ELSE @]
    ELSE p

\* if (parsed.description.trim().length < 120) { ... }
LengthCheck(p) ==
  IF Len(Trim(p.description.s)) < MinDescLen
    THEN [p EXCEPT !.confidence = Low,
                   !.missingFields =
                      IF ~Includes(@, DescTooShortMsg)
                        THEN Push(@, DescTooShortMsg)
                        ELSE @]
    ELSE p

\* the harden block, in statement order
Harden(p, currency, unit) ==
  LengthCheck(ValidateDescription(ValidatePrice(
    CoerceConfidence(CoerceMissingFields(p)), currency, unit)))

\* lines 334-381 for one returned content: parse, fall back, harden
ParseAndHarden(content, currency, unit) ==
  LET p == ParseOrFallback(ContentOrDefault(content), currency, unit)
  IN  IF HardenThrows(p)
        THEN [threw |-> TRUE, parsed |-> p]
        ELSE [threw |-> FALSE, parsed |-> Harden(p, currency, unit)]

\* the literal JSON.stringify writes for a finite number of the model
NumeralOf(v) ==
  CASE v.n = 0 -> "0"
    [] v.n = 5 -> "5"
    [] v.n = 120 -> "120"

\* JSON.stringify of a value that is not a container: an undefined member is
\* left out, a non-finite number is written as null
StringifyScalar(v) ==
  CASE v.t = "undefined" -> Absent
    [] v.t = "null" -> TNull
    [] v.t = "boolean" -> IF v.b THEN TTrue ELSE TFalse
    [] v.t = "number" -> IF v.finite THEN TNumber(NumeralOf(v)) ELSE TNull
    [] v.t = "string" -> TString(v.s)

\* JSON.stringify of the priceSuggestion member
StringifyPrice(ps) ==
  IF ps.t = "object"
    THEN TPrice(StringifyScalar(ps.value), StringifyScalar(ps.currency),
                StringifyScalar(ps.unit))
    ELSE StringifyScalar(ps)

\* JSON.stringify of the missingFields member
StringifyList(arr) ==
  IF arr.t = "array"
    THEN TArray([i \in 1..Len(arr.items) |-> StringifyScalar(arr.items[i])])
    ELSE StringifyScalar(arr)

\* JSON.stringify(parsed), as res.json writes it: of an array only the
\* elements are written, the named properties assigned to it are not
JSONStringify(p) ==
  IF p.t = "array"
    THEN TArray(<<>>)
    ELSE WithKeys(TObject(StringifyScalar(p.description),
                          StringifyPrice(p.priceSuggestion),
                          StringifyScalar(p.confidence),
                          StringifyList(p.missingFields)),
                  [k \in DOMAIN p \cap EnvelopeKeys |->
                     StringifyScalar(p[k])])

(***************************************************************************)
(* Bounded universe of model outputs and request bodies                    *)
(***************************************************************************)
RECURSIVE Rep(_, _)
Rep(c, n) ==
  IF n = 0 THEN ""
  ELSE IF n % 2 = 0 THEN LET h == Rep(c, n \div 2) IN h \o h
  ELSE c \o Rep(c, n - 1)

\* body lengths around the threshold
BodyLens == {0, MinDescLen - 1, MinDescLen}

DescStrings ==
  {Rep(" ", l) \o Rep("x", n) \o Rep(" ", r) :
     l \in 0..MaxPad, n \in BodyLens, r \in 0..MaxPad}

DescTokens == {Absent, TNumber("5")} \cup {TString(s) : s \in DescStrings}

ConfTokens ==
  {Absent, TString("low"), TString("medium"), TString("high"),
   TString("HIGH")}

PriceTokens ==
  {Absent, TNull, TNumber("5"),
   TPrice(TNumber("120"), TString("EUR"), Absent)} \cup
  {TPrice(v, c, TString("kg")) :
     v \in {TNumber("120"), TNumber("1e999"), TString("120")},
     c \in {TString("EUR"), TNumber("5")}}

MissingElems ==
  {TString(PriceIncompleteMsg.s), TString(DescMissingMsg.s),
   TString(DescTooShortMsg.s)}

SeqsUpTo(S, n) == UNION {[1..k -> S] : k \in 0..n}

\* arrays holding an element that is not a string
NonStringLists ==
  {TArray(<<TNumber("5")>>),
   TArray(<<TString(DescTooShortMsg.s), TNumber("5")>>)}

MissingTokens ==
  {Absent, TString("none")} \cup NonStringLists \cup
  {TArray(q) : q \in SeqsUpTo(MissingElems, MaxMissing)}

ObjectOutputs ==
  {TObject(d, ps, c, mf) :
     d \in DescTokens, ps \in PriceTokens, c \in ConfTokens,
     mf \in MissingTokens}

RawOutputs ==
  {TGarbage, TEmpty, TNull, TTrue, TNumber("5"), TString("ok"),
   TArray(<<>>)} \cup ObjectOutputs

\* request bodies that pass validation; currency and unit as the caller
\* sent them (JSON values of any type, or not sent)
Bodies ==
  {[category |-> JStr("grain"), commodity |-> JStr("wheat"),
    currency |-> cu[1], unit |-> cu[2]] :
     cu \in {<<Undefined, Undefined>>, <<JStr("EUR"), JStr("kg")>>,
             <<JNum(5), JStr("kg")>>, <<JStr("EUR"), JNull>>}}

(***************************************************************************)
(* State                                                                   *)
(***************************************************************************)
VARIABLES
  ls_pc,            \* position of the listing-suggest request
  ls_body,          \* req.body of the listing-suggest request
  ls_raw,           \* content returned by the provider
  parsed,           \* `parsed` after the harden block
  ls_res,           \* response sent: status 0 = none yet
  sy_pc,            \* position of each /sync/user request
  sy_req,           \* headers and body of each /sync/user request
  sy_res,           \* response sent to each /sync/user request
  ingested_events,  \* table ingested_events: the event_id of each row
  users_ai,         \* table users_ai: rows [user_id, payload]
  upserts,          \* history: requests whose users_ai upsert was applied
  storeFaulted,     \* history: some query failed for a transient reason
  sy_late,          \* history: the request arrived after a success for its
                    \* eventId had been answered
  ag_pc,            \* position of each /agent/* request
  ag_req,           \* endpoint, headers and body of each /agent/* request
  ag_raw,           \* what the provider call of the request resolved with
  ag_out,           \* `parsed` of the request once the harden block ended
  ag_res,           \* response sent to each /agent/* request
  ag_call,          \* arguments of the provider call the request issued
  ag_io,            \* history: provider calls and store queries it issued
  ai_interactions   \* table ai_interactions: rows [id, req, ai_output]

lsVars == <<ls_pc, ls_body, ls_raw, parsed, ls_res>>
syVars ==
  <<sy_pc, sy_req, sy_res, ingested_events, users_ai, upserts, storeFaulted,
    sy_late>>
agVars ==
  <<ag_pc, ag_req, ag_raw, ag_out, ag_res, ag_call, ag_io, ai_interactions>>
vars == <<lsVars, syVars, agVars>>

\* const { currency = "PLN", unit = "t" } = req.body
currency == Default(ls_body.currency, JStr("PLN"))
unit == Default(ls_body.unit, JStr("t"))

NoResponse == [status |-> 0]

Reqs == 1..NumReqs

\* no /sync/user request has arrived; the tables initTables created are empty
SyncIdle ==
  /\ sy_pc = [r \in Reqs |-> "idle"]
  /\ sy_req = [r \in Reqs |-> Undefined]
  /\ sy_res = [r \in Reqs |-> NoResponse]
  /\ ingested_events = <<>>
  /\ users_ai = {}
  /\ upserts = <<>>
  /\ storeFaulted = FALSE
  /\ sy_late = [r \in Reqs |-> FALSE]

NoIo == [calls |-> 0, queries |-> 0]

\* no /agent/* request has arrived; no interaction has been recorded
AgentIdle ==
  /\ ag_pc = [r \in Reqs |-> "idle"]
  /\ ag_req = [r \in Reqs |-> Undefined]
  /\ ag_raw = [r \in Reqs |-> Absent]
  /\ ag_out = [r \in Reqs |-> Undefined]
  /\ ag_res = [r \in Reqs |-> NoResponse]
  /\ ag_call = [r \in Reqs |-> Undefined]
  /\ ag_io = [r \in Reqs |-> NoIo]
  /\ ai_interactions = <<>>

\* no /agent/listing-suggest request has arrived
SuggestIdle ==
  /\ ls_pc = "idle"
  /\ ls_body = Undefined
  /\ ls_raw = Absent
  /\ parsed = Undefined
  /\ ls_res = NoResponse

\* a validated request whose provider call is in flight
InitHarden ==
  /\ ls_pc = "awaitCompletion"
  /\ ls_body \in Bodies
  /\ ls_raw = Absent
  /\ parsed = Undefined
  /\ ls_res = NoResponse
  /\ SyncIdle
  /\ AgentIdle

\* the provider call resolves with one of Contents; the handler runs lines
\* 334-383 (or its catch, 400-403, when the harden block throws)
LsCompletion(Contents) ==
  /\ ls_pc = "awaitCompletion"
  /\ \E content \in Contents :
       LET h == ParseAndHarden(content, currency, unit)
       IN  /\ ls_raw' = ContentOrDefault(content)
           /\ parsed' = h.parsed
           /\ IF h.threw
                THEN /\ ls_pc' = "done"
                     /\ ls_res' = [status |-> 500,
                                   error |-> "Listing suggestion failed"]
                ELSE /\ ls_pc' = "awaitInsert"
                     /\ ls_res' = ls_res
  /\ UNCHANGED <<ls_body, syVars, agVars>>

NextHarden == LsCompletion(RawOutputs)

SpecHarden == InitHarden /\ [][NextHarden]_vars

(***************************************************************************)
(* POST /sync/user (src/server.js 121-155) and the two tables it uses      *)
(***************************************************************************)
\* process.env.AGENT_ORCHESTRATOR_SECRET
SECRET == JStr("s3cret")

\* the middleware letting a request without the header through
verifySecret_AcceptsAbsent(header) == ~(Truthy(header) /\ header # SECRET)

\* verifySecret: TRUE when next() is called, FALSE when it answers 403
verifySecret(header) == ~(~Truthy(header) \/ header # SECRET)

JUser(id, name) == [t |-> "object", id |-> id, name |-> name]

\* user?.id
UserId(user) == IF user.t = "object" THEN user.id ELSE Undefined

\* what a request may carry
SecretHeaders == {Undefined, SECRET, JStr("wrong")}
EventIds == {Undefined, JStr("e1"), JStr("e2")}
Users ==
  {Undefined, JUser(JStr("u1"), "A"), JUser(JStr("u1"), "B"),
   JUser(JStr("u2"), "A")}

\* SELECT 1 FROM ingested_events WHERE event_id=$1  (its rowCount)
SelectEvent(tbl, eventId) ==
  Cardinality({i \in 1..Len(tbl) : tbl[i] = eventId})

\* the table has no PRIMARY KEY: an INSERT never conflicts
UniqueViolation_NoPrimaryKey(tbl, eventId) == FALSE

\* event_id TEXT PRIMARY KEY: an INSERT of a present event_id is rejected
UniqueViolation(tbl, eventId) == SelectEvent(tbl, eventId) > 0

\* an upsert that is acknowledged without being applied
UpsertUser_NotApplied(tbl, user) == tbl

\* INSERT INTO users_ai ... ON CONFLICT (user_id) DO UPDATE SET payload = ...
UpsertUser(tbl, user) ==
  {row \in tbl : row.user_id # user.id} \cup
  {[user_id |-> user.id, payload |-> user]}

\* the dedup test taking one row for none
AlreadyIngested_OffByOne(tbl, eventId) == SelectEvent(tbl, eventId) > 1

\* if (existing.rowCount > 0)
AlreadyIngested(tbl, eventId) == SelectEvent(tbl, eventId) > 0

\* a request carrying eventId was answered {success:true} (history helper)
SucceededBefore(eventId) ==
  \E q \in Reqs :
    /\ sy_res[q] = [status |-> 200, success |-> TRUE]
    /\ sy_req[q].eventId = eventId

\* a response sent without `return`: the handler goes on to its SELECT
Respond_NoReturn(r, res) ==
  /\ sy_res' = [sy_res EXCEPT ![r] = res]
  /\ sy_pc' = [sy_pc EXCEPT ![r] = "select"]

Respond(r, res) ==
  /\ sy_res' = [sy_res EXCEPT ![r] = res]
  /\ sy_pc' = [sy_pc EXCEPT ![r] = "done"]

\* a request arrives: verifySecret, then the handler up to its first await
SyncUserReceiveFrom(r, HeaderValues, Ids, UserValues) ==
  /\ sy_pc[r] = "idle"
  /\ \E header \in HeaderValues, eventId \in Ids, user \in UserValues :
       /\ sy_req' = [sy_req EXCEPT ![r] =
                       [header |-> header, eventId |-> eventId,
                        user |-> user]]
       /\ sy_late' = [sy_late EXCEPT ![r] = SucceededBefore(eventId)]
       /\ IF ~verifySecret(header)
            THEN Respond(r, [status |-> 403, error |-> "Unauthorized"])
            ELSE IF ~Truthy(eventId) \/ ~Truthy(UserId(user))
              THEN Respond(r, [status |-> 400,
                               error |-> "Missing eventId or user"])
              ELSE /\ sy_pc' = [sy_pc EXCEPT ![r] = "select"]
                   /\ UNCHANGED sy_res
  /\ UNCHANGED <<ingested_events, users_ai, upserts, storeFaulted, lsVars,
                 agVars>>

SyncUserReceive(r) == SyncUserReceiveFrom(r, SecretHeaders, EventIds, Users)

\* the SELECT is answered; the handler skips or issues the upsert
SyncUserSelect(r) ==
  /\ sy_pc[r] = "select"
  /\ IF AlreadyIngested(ingested_events, sy_req[r].eventId)
       THEN Respond(r, [status |-> 200, skipped |-> TRUE])
       ELSE /\ sy_pc' = [sy_pc EXCEPT ![r] = "upsert"]
            /\ UNCHANGED sy_res
  /\ UNCHANGED <<sy_req, ingested_events, users_ai, upserts, storeFaulted,
                 sy_late, lsVars, agVars>>

\* the users_ai upsert is applied; the handler issues the ledger INSERT
SyncUserUpsert(r) ==
  /\ sy_pc[r] = "upsert"
  /\ users_ai' = UpsertUser(users_ai, sy_req[r].user)
  /\ upserts' = Append(upserts, r)
  /\ sy_pc' = [sy_pc EXCEPT ![r] = "insert"]
  /\ UNCHANGED <<sy_req, sy_res, ingested_events, storeFaulted, sy_late,
                 lsVars, agVars>>

\* the ledger INSERT is applied or rejected by the primary key; the handler
\* answers success, or its catch answers 500
SyncUserInsert(r) ==
  /\ sy_pc[r] = "insert"
  /\ IF UniqueViolation(ingested_events, sy_req[r].eventId)
       THEN /\ Respond(r, [status |-> 500, error |-> "Sync failed"])
            /\ UNCHANGED ingested_events
       ELSE /\ ingested_events' = Append(ingested_events, sy_req[r].eventId)
            /\ Respond(r, [status |-> 200, success |-> TRUE])
  /\ UNCHANGED <<sy_req, users_ai, upserts, storeFaulted, sy_late, lsVars,
                 agVars>>

\* the awaited query rejects for a reason of the store or the connection;
\* the catch answers 500
SyncUserQueryFails(r) ==
  /\ sy_pc[r] \in {"select", "upsert", "insert"}
  /\ Respond(r, [status |-> 500, error |-> "Sync failed"])
  /\ storeFaulted' = TRUE
  /\ UNCHANGED <<sy_req, ingested_events, users_ai, upserts, sy_late, lsVars,
                 agVars>>

InitSync == SuggestIdle /\ SyncIdle /\ AgentIdle

NextSync ==
  \E r \in Reqs :
    \/ SyncUserReceive(r)
    \/ SyncUserSelect(r)
    \/ SyncUserUpsert(r)
    \/ SyncUserInsert(r)
    \/ SyncUserQueryFails(r)

SpecSync == InitSync /\ [][NextSync]_vars

(***************************************************************************)
(* POST /agent/user-chat and POST /agent/listing-suggest as whole handlers *)
(* (src/server.js 159-404), run by several concurrent requests.  A handler *)
(* runs without interruption up to each await; there is one action per     *)
(* continuation.                                                           *)
(***************************************************************************)
\* temperature of the two provider calls, in hundredths
ListingTemperature == 45
ChatTemperature == 40

\* least length of the trimmed notes that selects the rewrite prompts
MinUserText == 10

\* String(v), for the values a body of the model carries as notes
JSString(v) ==
  CASE v.t = "string" -> v.s
    [] v.t = "number" /\ v.n = 0 -> "0"
    [] v.t = "number" /\ v.n = 5 -> "5"
    [] v.t = "number" /\ v.n = 120 -> "120"

\* const userDescription = String(notes || "").trim(), notes defaulting to ""
userDescription(body) ==
  LET notes == Default(body.notes, JStr(""))
  IN  Trim(JSString(IF Truthy(notes) THEN notes ELSE JStr("")))

\* the length test taking the threshold itself for too short
hasUserText_Strict(body) == Len(userDescription(body)) > MinUserText

\* const hasUserText = userDescription.length >= 10
hasUserText(body) == Len(userDescription(body)) >= MinUserText

\* inputFacts (the bodies of the model carry no region, quantity, language
\* or specs)
inputFacts(body) ==
  [category |-> body.category, commodity |-> body.commodity,
   currency |-> Default(body.currency, JStr("PLN")),
   unit |-> Default(body.unit, JStr("t"))]

\* a prompt that also quotes how many interactions are on record
CompilePrompt_Remembers(body) ==
  [model |-> "gpt-4o-mini", temperature |-> ListingTemperature,
   system |-> IF hasUserText(body) THEN "systemRewrite" ELSE "systemCreate",
   user |-> IF hasUserText(body)
              THEN [template |-> "userPromptRewrite",
                    userText |-> userDescription(body),
                    facts |-> inputFacts(body),
                    memory |-> Len(ai_interactions)]
              ELSE [template |-> "userPromptCreate",
                    facts |-> inputFacts(body),
                    memory |-> Len(ai_interactions)]]

\* the argument of openai.chat.completions.create in listing-suggest
CompilePrompt(body) ==
  [model |-> "gpt-4o-mini", temperature |-> ListingTemperature,
   system |-> IF hasUserText(body) THEN "systemRewrite" ELSE "systemCreate",
   user |-> IF hasUserText(body)
              THEN [template |-> "userPromptRewrite",
                    userText |-> userDescription(body),
                    facts |-> inputFacts(body)]
              ELSE [template |-> "userPromptCreate",
                    facts |-> inputFacts(body)]]

\* listings_ai and transactions_ai: created empty, written by no route
listings_ai == <<>>
transactions_ai == <<>>

\* SELECT * FROM <tbl> WHERE seller_user_id=$1  (its rowCount)
SelectBySeller(tbl, userId) ==
  Cardinality({i \in 1..Len(tbl) : tbl[i].seller_user_id = userId})

\* the argument of openai.chat.completions.create in user-chat
ChatPrompt(body) ==
  [model |-> "gpt-4o-mini", temperature |-> ChatTemperature,
   system |-> "chatSystem",
   user |-> [template |-> "context",
             listings |-> SelectBySeller(listings_ai, body.userId),
             transactions |-> SelectBySeller(transactions_ai, body.userId),
             message |-> body.message]]

\* if (!userId || !message)
MissingChatFields(body) == ~Truthy(body.userId) \/ ~Truthy(body.message)

\* the validation looking at the category only
MissingListingFields_CategoryOnly(body) == ~Truthy(body.category)

\* if (!category || !commodity)
MissingListingFields(body) ==
  ~Truthy(body.category) \/ ~Truthy(body.commodity)

\* a catch block that forwards the message of the error it caught
ErrorBody_LeaksDetail(endpoint, err) ==
  [status |-> 500, error |-> err]

\* the response of the catch block of each handler
ErrorBody(endpoint, err) ==
  [status |-> 500,
   error |-> IF endpoint = "listing-suggest" THEN "Listing suggestion failed"
                                             ELSE "Assistant failed"]

\* a provider call shared with a request already waiting for the same prompt
CallsIssued_Deduplicated(r, call) ==
  IF \E q \in Reqs \ {r} : ag_pc[q] = "completion" /\ ag_call[q] = call
    THEN 0 ELSE 1

\* await openai.chat.completions.create(...): calls the handler issues there
CallsIssued(r, call) == 1

\* an INSERT that keeps one row per task
InsertInteraction_Replace(tbl, r, output) ==
  <<[id |-> Len(tbl) + 1, req |-> r, task |-> "listing_suggest",
     input |-> ag_req[r].body, ai_output |-> output]>>

\* INSERT INTO ai_interactions (...) VALUES (...) RETURNING id; req is a
\* history column naming the request that inserted the row
InsertInteraction(tbl, r, output) ==
  Append(tbl, [id |-> Len(tbl) + 1, req |-> r, task |-> "listing_suggest",
               input |-> ag_req[r].body, ai_output |-> output])

\* res.json({ success: true, interactionId, ...parsed }): a key of parsed
\* replaces the key of the same name written before the spread
SuccessBody(interactionId, p) ==
  [status |-> 200,
   success |-> IF "success" \in DOMAIN p THEN p.success ELSE JBool(TRUE),
   interactionId |-> IF "interactionId" \in DOMAIN p THEN p.interactionId
                                                      ELSE interactionId,
   description |-> p.description, priceSuggestion |-> p.priceSuggestion,
   confidence |-> p.confidence, missingFields |-> p.missingFields]

\* what a request may carry
Headers(xpg, authorization) == [xpg |-> xpg, authorization |-> authorization]
ChatBody(userId, message) == [userId |-> userId, message |-> message]
LsBody(category, commodity, notes, temperature) ==
  [category |-> category, commodity |-> commodity, currency |-> Undefined,
   unit |-> Undefined, notes |-> notes, temperature |-> temperature]
Request(endpoint, headers, body) ==
  [endpoint |-> endpoint, headers |-> headers, body |-> body]

GoodHeaders == Headers(SECRET, Undefined)
BadHeaders ==
  {Headers(Undefined, Undefined), Headers(JStr("wrong"), Undefined),
   Headers(Undefined, JStr("Bearer s3cret"))}

ValidChat == ChatBody(JStr("u1"), JStr("hi"))
ChatBodies ==
  {ValidChat, ChatBody(Undefined, JStr("hi")), ChatBody(JStr("u1"), Undefined)}

PlainListing == LsBody(JStr("grain"), JStr("wheat"), Undefined, Undefined)
ListingBodies ==
  {PlainListing,
   LsBody(Undefined, JStr("wheat"), Undefined, Undefined),
   LsBody(JStr("grain"), Undefined, Undefined, Undefined),
   LsBody(JStr("grain"), JStr("wheat"),
          JStr(" " \o Rep("x", MinUserText - 1) \o " "), Undefined),
   LsBody(JStr("grain"), JStr("wheat"), JStr(Rep("x", MinUserText)),
          Undefined),
   LsBody(JStr("grain"), JStr("wheat"), Undefined, JNum(5))}

AgentRequests ==
  {Request("user-chat", h, ValidChat) : h \in BadHeaders}
    \cup {Request("listing-suggest", h, PlainListing) : h \in BadHeaders}
    \cup {Request("user-chat", GoodHeaders, b) : b \in ChatBodies}
    \cup {Request("listing-suggest", GoodHeaders, b) : b \in ListingBodies}

\* notes around the threshold, padded with white space, and notes that are
\* absent, null or a number
NoteLens == 0..(3 * MinUserText)
NotesValues ==
  {Undefined, JNull, JNum(5), JNum(0)}
    \cup {JStr(Rep(" ", l) \o Rep("x", n) \o Rep(" ", t)) :
            l \in 0..MaxPad, n \in NoteLens, t \in 0..MaxPad}
ModeRequests ==
  {Request("listing-suggest", GoodHeaders,
           LsBody(JStr("grain"), JStr("wheat"), n, Undefined)) :
     n \in NotesValues}

\* what the provider may answer, and the errors its call may reject with
GoodOutput ==
  TObject(TString(Rep("x", MinDescLen)),
          TPrice(TNumber("120"), TString("EUR"), TString("kg")),
          TString("high"), TArray(<<>>))
SampleOutputs == {TGarbage, TNull, GoodOutput}

\* well-formed outputs that also carry a key of the envelope
SpoofedOutputs ==
  {GoodOutput @@ [success |-> TFalse],
   GoodOutput @@ [interactionId |-> TNumber("5")]}
EnvelopeOutputs == {GoodOutput} \cup SpoofedOutputs
ProviderErrors == {"429 rate limit exceeded"}
StoreError == "connection terminated"
TError(detail) == [syn |-> "error", detail |-> detail]

AgentRespond(r, res) ==
  /\ ag_res' = [ag_res EXCEPT ![r] = res]
  /\ ag_pc' = [ag_pc EXCEPT ![r] = "done"]

\* the handler issues one more store query
Queried(r) ==
  ag_io' = [ag_io EXCEPT ![r].queries = @ + 1]

\* the handler calls the provider with `call`
Called(r, call) ==
  /\ ag_call' = [ag_call EXCEPT ![r] = call]
  /\ ag_io' = [ag_io EXCEPT ![r].calls = @ + CallsIssued(r, call)]
  /\ ag_pc' = [ag_pc EXCEPT ![r] = "completion"]

\* a request arrives: verifySecret, then the handler up to its first await
AgentReceive(r, Requests) ==
  /\ ag_pc[r] = "idle"
  /\ sy_pc[r] = "idle"
  /\ \E req \in Requests :
       /\ ag_req' = [ag_req EXCEPT ![r] = req]
       /\ IF ~verifySecret(req.headers.xpg)
            THEN /\ AgentRespond(r, [status |-> 403, error |-> "Unauthorized"])
                 /\ UNCHANGED <<ag_call, ag_io>>
          ELSE IF req.endpoint = "user-chat"
            THEN IF MissingChatFields(req.body)
                   THEN /\ AgentRespond(r, [status |-> 400,
                              error |-> "Missing userId or message"])
                        /\ UNCHANGED <<ag_call, ag_io>>
                   ELSE /\ ag_pc' = [ag_pc EXCEPT ![r] = "listings"]
                        /\ Queried(r)
                        /\ UNCHANGED <<ag_call, ag_res>>
          ELSE IF MissingListingFields(req.body)
            THEN /\ AgentRespond(r, [status |-> 400,
                       error |-> "Missing category or commodity"])
                 /\ UNCHANGED <<ag_call, ag_io>>
          ELSE /\ Called(r, CompilePrompt(req.body))
               /\ UNCHANGED ag_res
  /\ UNCHANGED <<ag_raw, ag_out, ai_interactions, lsVars, syVars>>

\* user-chat: the listings SELECT is answered, the transactions SELECT issued
ChatListings(r) ==
  /\ ag_pc[r] = "listings"
  /\ ag_pc' = [ag_pc EXCEPT ![r] = "transactions"]
  /\ Queried(r)
  /\ UNCHANGED <<ag_req, ag_raw, ag_out, ag_res, ag_call, ai_interactions,
                 lsVars, syVars>>

\* user-chat: the transactions SELECT is answered, the provider is called
ChatTransactions(r) ==
  /\ ag_pc[r] = "transactions"
  /\ Called(r, ChatPrompt(ag_req[r].body))
  /\ UNCHANGED <<ag_req, ag_raw, ag_out, ag_res, ai_interactions, lsVars,
                 syVars>>

\* the provider call resolves with one of Contents: user-chat answers with
\* it; listing-suggest parses and hardens it and issues the INSERT
AgentCompletion(r, Contents) ==
  /\ ag_pc[r] = "completion"
  /\ \E content \in Contents :
       /\ ag_raw' = [ag_raw EXCEPT ![r] = content]
       /\ IF ag_req[r].endpoint = "user-chat"
            THEN /\ AgentRespond(r, [status |-> 200, response |-> content,
                                     confidence |-> "high"])
                 /\ UNCHANGED <<ag_out, ag_io>>
            ELSE LET facts == inputFacts(ag_req[r].body)
                     h == ParseAndHarden(content, facts.currency, facts.unit)
                 IN  IF h.threw
                       THEN /\ AgentRespond(r,
                                 ErrorBody(ag_req[r].endpoint, "TypeError"))
                            /\ UNCHANGED <<ag_out, ag_io>>
                       ELSE /\ ag_out' = [ag_out EXCEPT ![r] = h.parsed]
                            /\ ag_pc' = [ag_pc EXCEPT ![r] = "insert"]
                            /\ Queried(r)
                            /\ UNCHANGED ag_res
  /\ UNCHANGED <<ag_req, ag_call, ai_interactions, lsVars, syVars>>

\* the provider call rejects: the catch block answers
AgentProviderFails(r) ==
  /\ ag_pc[r] = "completion"
  /\ \E detail \in ProviderErrors :
       /\ ag_raw' = [ag_raw EXCEPT ![r] = TError(detail)]
       /\ AgentRespond(r, ErrorBody(ag_req[r].endpoint, detail))
  /\ UNCHANGED <<ag_req, ag_out, ag_call, ag_io, ai_interactions, lsVars,
                 syVars>>

\* listing-suggest: the INSERT into ai_interactions is applied and answered
ListingInsert(r) ==
  /\ ag_pc[r] = "insert"
  /\ ai_interactions' = InsertInteraction(ai_interactions, r, ag_out[r])
  /\ AgentRespond(r, SuccessBody(JNum(Len(ai_interactions')), ag_out[r]))
  /\ UNCHANGED <<ag_req, ag_raw, ag_out, ag_call, ag_io, lsVars, syVars>>

\* a store query of the handler rejects: the catch block answers
AgentQueryFails(r) ==
  /\ ag_pc[r] \in {"listings", "transactions", "insert"}
  /\ AgentRespond(r, ErrorBody(ag_req[r].endpoint, StoreError))
  /\ UNCHANGED <<ag_req, ag_raw, ag_out, ag_call, ag_io, ai_interactions,
                 lsVars, syVars>>

InitAgent == SuggestIdle /\ SyncIdle /\ AgentIdle

NextAgent ==
  \E r \in Reqs :
    \/ AgentReceive(r, AgentRequests)
    \/ ChatListings(r)
    \/ ChatTransactions(r)
    \/ AgentCompletion(r, SampleOutputs)
    \/ AgentProviderFails(r)
    \/ ListingInsert(r)
    \/ AgentQueryFails(r)

SpecAgent == InitAgent /\ [][NextAgent]_vars

\* the two routes with outputs that carry keys of the envelope
NextEnvelope ==
  \E r \in Reqs :
    \/ AgentReceive(r, {Request("user-chat", GoodHeaders, ValidChat),
                        Request("listing-suggest", GoodHeaders, PlainListing)})
    \/ ChatListings(r)
    \/ ChatTransactions(r)
    \/ AgentCompletion(r, EnvelopeOutputs)
    \/ AgentProviderFails(r)
    \/ ListingInsert(r)
    \/ AgentQueryFails(r)

SpecEnvelope == InitAgent /\ [][NextEnvelope]_vars

\* the prompt selection of listing-suggest alone, over NotesValues
NextMode == AgentReceive(1, ModeRequests)

SpecMode == InitAgent /\ [][NextMode]_vars

\* the three routes together: every request takes one of them; a
\* /sync/user request carries one of a few headers, event ids and users
NextServer ==
  \/ \E r \in Reqs :
       \/ /\ ag_pc[r] = "idle"
          /\ SyncUserReceiveFrom(r, {Undefined, SECRET},
                                 {Undefined, JStr("e1")},
                                 {Undefined, JUser(JStr("u1"), "A")})
       \/ SyncUserSelect(r)
       \/ SyncUserUpsert(r)
       \/ SyncUserInsert(r)
       \/ SyncUserQueryFails(r)
  \/ NextAgent

SpecServer == InitAgent /\ [][NextServer]_vars

\* what the requests of the fair specification carry and are answered
LiveRequests ==
  {Request("user-chat", Headers(Undefined, Undefined), ValidChat),
   Request("user-chat", GoodHeaders, ValidChat),
   Request("listing-suggest", GoodHeaders, PlainListing),
   Request("listing-suggest", GoodHeaders,
           LsBody(JStr("grain"), Undefined, Undefined, Undefined))}
LiveOutputs == {TNull, GoodOutput}

\* a request arrives at one of the three routes
Arrive(r) ==
  \/ /\ ag_pc[r] = "idle"
     /\ SyncUserReceiveFrom(r, {SECRET}, {Undefined, JStr("e1")},
                            {JUser(JStr("u1"), "A")})
  \/ AgentReceive(r, LiveRequests)

\* the awaited query or provider call of request r returns or fails
Settle(r) ==
  \/ SyncUserSelect(r)
  \/ SyncUserUpsert(r)
  \/ SyncUserInsert(r)
  \/ SyncUserQueryFails(r)
  \/ ChatListings(r)
  \/ ChatTransactions(r)
  \/ AgentCompletion(r, LiveOutputs)
  \/ AgentProviderFails(r)
  \/ ListingInsert(r)
  \/ AgentQueryFails(r)

NextLive == \E r \in Reqs : Arrive(r) \/ Settle(r)

\* the three routes, every awaited query and provider call settling in the
\* end; requests arrive when they will
SpecLive ==
  InitAgent /\ [][NextLive]_vars /\ \A r \in Reqs : WF_vars(Settle(r))

(***************************************************************************)
(* Properties of the parse-and-harden block (checked under SpecHarden)     *)
(***************************************************************************)
\* the harden block ran to its end for the returned content
Hardened == ls_pc = "awaitInsert"

\* JSON.parse accepted the returned content
ParseOk == ls_raw # Absent /\ JSONParse(ls_raw).ok

\* `parsed` as it enters the harden block
parsed0 == ParseOrFallback(ls_raw, currency, unit)

ConfidenceEnum == {JStr("low"), JStr("medium"), JStr("high")}

\* the Suggestion Result's price shape: present, finite number, two strings
WellFormedPrice(ps) ==
  /\ ps.t = "object"
  /\ ps.value.t = "number" /\ ps.value.finite
  /\ ps.currency.t = "string"
  /\ ps.unit.t = "string"

IsStringList(v) ==
  /\ v.t = "array"
  /\ \A i \in 1..Len(v.items) : v.items[i].t = "string"

\* number of occurrences of v in the array arr
Count(arr, v) == Cardinality({i \in 1..Len(arr.items) : arr.items[i] = v})

\* occurrences of v the model itself supplied in missingFields
Supplied(v) ==
  IF parsed0.missingFields.t = "array" THEN Count(parsed0.missingFields, v)
                                       ELSE 0

OwnMessages == {PriceIncompleteMsg, DescMissingMsg, DescTooShortMsg}

\* every validation step passes on the returned content
AllChecksPass ==
  /\ ParseOk
  /\ parsed0.confidence \in ConfidenceEnum
  /\ WellFormedPrice(parsed0.priceSuggestion)
  /\ parsed0.description.t = "string"
  /\ Len(Trim(parsed0.description.s)) >= MinDescLen

\* C1: whatever content the provider returned, the parse-and-harden step
\* ends with a Suggestion Result and no 500 response is sent for it.
C1_HardeningTotal ==
  ls_pc # "awaitCompletion" => (Hardened /\ ls_res.status # 500)

\* C2: after hardening, description is a string, priceSuggestion has a
\* finite numeric value and string currency and unit, confidence is one of
\* low/medium/high and missingFields is an array, for every caller currency
\* and unit.
C2_SchemaValid ==
  Hardened =>
    /\ parsed.description.t = "string"
    /\ WellFormedPrice(parsed.priceSuggestion)
    /\ parsed.confidence \in ConfidenceEnum
    /\ parsed.missingFields.t = "array"

\* C3: the hardened confidence is the raw confidence when every validation
\* step passed and "low" as soon as one of them failed.
C3_MonotonicDowngrade ==
  Hardened =>
    parsed.confidence = IF AllChecksPass THEN parsed0.confidence ELSE Low

\* C3 witness: a raw "high" is downgraded because one check failed
C3_Witness ==
  /\ Hardened /\ ParseOk
  /\ parsed0.confidence = JStr("high")
  /\ ~AllChecksPass
  /\ parsed.confidence = Low

\* C4: when the content is not JSON the result is exactly the default one,
\* with the single message "AI returned invalid JSON - try again".
C4_InvalidJsonDefault ==
  (ls_pc # "awaitCompletion" /\ ~ParseOk) =>
    (Hardened /\ parsed = ParseFallback(currency, unit))

\* C5: the hardened missingFields holds each of the hardener's messages at
\* most as often as the model supplied it, or once when the model did not.
C5_NoDuplicateDiagnostics ==
  (Hardened /\ ParseOk) =>
    \A m \in OwnMessages :
      Count(parsed.missingFields, m) <=
        (IF Supplied(m) = 0 THEN 1 ELSE Supplied(m))

\* C6: every element of the hardened missingFields is a string, and a
\* parsed missingFields that is not a list of strings leaves nothing but
\* the hardener's own messages.
C6_MissingFieldsCoerced ==
  (Hardened /\ ParseOk) =>
    /\ IsStringList(parsed.missingFields)
    /\ ~IsStringList(parsed0.missingFields) =>
         \A i \in 1..Len(parsed.missingFields.items) :
           parsed.missingFields.items[i] \in OwnMessages

\* C7: for parsed output, a well-formed priceSuggestion is returned
\* unchanged; any other is replaced as a whole by {0, caller currency,
\* caller unit}, with confidence low and "Price suggestion incomplete".
C7_PriceValidation ==
  (Hardened /\ ParseOk) =>
    IF WellFormedPrice(parsed0.priceSuggestion)
      THEN parsed.priceSuggestion = parsed0.priceSuggestion
      ELSE /\ parsed.priceSuggestion = JPrice(JNum(0), currency, unit)
           /\ parsed.confidence = Low
           /\ Includes(parsed.missingFields, PriceIncompleteMsg)

\* C7 witness: a price object with only some valid members was replaced
C7_Witness ==
  /\ Hardened /\ ParseOk
  /\ parsed0.priceSuggestion.t = "object"
  /\ parsed0.priceSuggestion.currency = JStr("EUR")
  /\ ~WellFormedPrice(parsed0.priceSuggestion)
  /\ parsed.priceSuggestion = JPrice(JNum(0), currency, unit)

\* the returned content is valid in every respect but the description length
OnlyTooShort ==
  /\ ParseOk
  /\ parsed0.t = "object"
  /\ parsed0.missingFields.t = "array"
  /\ parsed0.confidence \in ConfidenceEnum
  /\ WellFormedPrice(parsed0.priceSuggestion)
  /\ parsed0.description.t = "string"
  /\ Len(Trim(parsed0.description.s)) < MinDescLen

\* C8: for output valid but for a short description, confidence becomes low
\* and missingFields contains "Description too short"; description,
\* priceSuggestion and the entries the model supplied stay as they were.
C8_ShortDescriptionFrame ==
  (Hardened /\ OnlyTooShort) =>
    /\ parsed.confidence = Low
    /\ Includes(parsed.missingFields, DescTooShortMsg)
    /\ parsed.description = parsed0.description
    /\ parsed.priceSuggestion = parsed0.priceSuggestion
    /\ Len(parsed.missingFields.items) >= Len(parsed0.missingFields.items)
    /\ SubSeq(parsed.missingFields.items, 1,
              Len(parsed0.missingFields.items)) = parsed0.missingFields.items
    /\ Len(parsed.missingFields.items) <=
         Len(parsed0.missingFields.items) + 1

\* C8 witness: a padded short description with a raw "high" and a
\* model-supplied entry went through the length check
C8_Witness ==
  /\ Hardened /\ OnlyTooShort
  /\ parsed0.confidence = JStr("high")
  /\ Len(parsed0.missingFields.items) > 0
  /\ Len(Trim(parsed0.description.s)) > 0
  /\ Trim(parsed0.description.s) # parsed0.description.s
  /\ Includes(parsed.missingFields, DescTooShortMsg)

(***************************************************************************)
(* Properties of POST /sync/user (checked under SpecSync)                  *)
(***************************************************************************)
\* request r's users_ai upsert has been applied
Wrote(r) == \E i \in 1..Len(upserts) : upserts[i] = r

\* request r passed verifySecret and the field validation
Admitted(r) == sy_pc[r] \notin {"idle"} /\ sy_res[r].status \notin {400, 403}

AllDone == \A r \in Reqs : sy_pc[r] = "done"

\* the last request whose upsert for user_id was applied
LastUpsertFor(user_id) ==
  LET idx == {i \in 1..Len(upserts) : sy_req[upserts[i]].user.id = user_id}
  IN  upserts[CHOOSE i \in idx : \A j \in idx : j <= i]

\* C9: of the requests carrying one eventId, at most one performs the
\* users_ai upsert.
C9_ProfileWrittenOnce ==
  \A r1, r2 \in Reqs :
    (r1 # r2 /\ Wrote(r1) /\ Wrote(r2)) =>
      sy_req[r1].eventId # sy_req[r2].eventId

\* C10: when every request has been answered (no query having failed for a
\* transient reason), the ledger holds exactly one row for the eventId of
\* each admitted request, and each users_ai row is the payload of the last
\* upsert applied for its user_id.
C10_OneRowLastWriteWins ==
  (AllDone /\ ~storeFaulted) =>
    /\ \A r \in Reqs :
         Admitted(r) => SelectEvent(ingested_events, sy_req[r].eventId) = 1
    /\ \A r \in Reqs :
         Wrote(r) =>
           \E row \in users_ai :
             /\ row.user_id = sy_req[r].user.id
             /\ row.payload = sy_req[LastUpsertFor(row.user_id)].user
    /\ Cardinality(users_ai) =
         Cardinality({sy_req[upserts[i]].user.id : i \in 1..Len(upserts)})

\* C10 witness: two requests with one eventId and different payloads for one
\* user both upserted; one row is in the ledger and the later payload stored
C10_Witness ==
  /\ AllDone /\ ~storeFaulted
  /\ Len(upserts) >= 2
  /\ sy_req[upserts[1]].eventId = sy_req[upserts[2]].eventId
  /\ sy_req[upserts[1]].user.id = sy_req[upserts[2]].user.id
  /\ sy_req[upserts[1]].user # sy_req[upserts[2]].user
  /\ SelectEvent(ingested_events, sy_req[upserts[1]].eventId) = 1
  /\ [user_id |-> sy_req[upserts[2]].user.id,
      payload |-> sy_req[upserts[2]].user] \in users_ai


Skipped == [status |-> 200, skipped |-> TRUE]
Succeeded == [status |-> 200, success |-> TRUE]

\* C11: once a /sync/user request carrying an eventId has been answered
\* {success:true}, a request with the same eventId that arrives afterwards
\* never reaches the profile upsert or the ledger insert (so it changes
\* neither table), the ledger keeps exactly one row for the eventId, and the
\* request is answered {skipped:true}; the only other answer it can get is
\* the 500 of a store query that failed for a transient reason.
C11_SequentialIdempotency ==
  \A r \in Reqs :
    (sy_late[r] /\ Admitted(r)) =>
      /\ sy_pc[r] \in {"select", "done"}
      /\ ~Wrote(r)
      /\ SelectEvent(ingested_events, sy_req[r].eventId) = 1
      /\ sy_pc[r] = "done" =>
           \/ sy_res[r] = Skipped
           \/ storeFaulted /\ sy_res[r] = [status |-> 500, error |-> "Sync failed"]

\* a late duplicate with a different payload was answered {skipped:true}
C11_Witness ==
  \E r, q \in Reqs :
    /\ sy_late[r]
    /\ sy_res[r] = Skipped
    /\ sy_res[q] = Succeeded
    /\ sy_req[q].eventId = sy_req[r].eventId
    /\ sy_req[q].user # sy_req[r].user


(***************************************************************************)
(* Properties of the whole handlers (checked under SpecAgent, SpecMode and *)
(* SpecServer)                                                             *)
(***************************************************************************)
\* request r arrived at /sync/user, or at one of the /agent routes
IsSync(r) == sy_pc[r] # "idle"
IsAgent(r) == ag_pc[r] # "idle"
IsChat(r) == IsAgent(r) /\ ag_req[r].endpoint = "user-chat"
IsListing(r) == IsAgent(r) /\ ag_req[r].endpoint = "listing-suggest"

\* the response of request r, whichever route took it
Res(r) == IF IsSync(r) THEN sy_res[r] ELSE ag_res[r]

\* the rows of ai_interactions inserted by request r
RowsOf(r) == {i \in 1..Len(ai_interactions) : ai_interactions[i].req = r}

\* the fields the route of r requires are not all there
FieldsMissing(r) ==
  IF IsSync(r)
    THEN ~Truthy(sy_req[r].eventId) \/ ~Truthy(UserId(sy_req[r].user))
  ELSE IF IsChat(r)
    THEN ~Truthy(ag_req[r].body.userId) \/ ~Truthy(ag_req[r].body.message)
  ELSE ~Truthy(ag_req[r].body.category) \/ ~Truthy(ag_req[r].body.commodity)

\* the x-pg-secret header of r is the secret
SecretOk(r) ==
  IF IsSync(r) THEN sy_req[r].header = SECRET
               ELSE ag_req[r].headers.xpg = SECRET

\* a request whose secret check fails is answered 403, one that passes it
\* without its required fields 400, and such a request has issued no
\* provider call and no store query and has written nothing
C12_RejectedState ==
  \A r \in Reqs :
    (IsSync(r) \/ IsAgent(r)) =>
      /\ ~SecretOk(r) => Res(r).status = 403
      /\ (SecretOk(r) /\ FieldsMissing(r)) => Res(r).status = 400
      /\ Res(r).status \in {400, 403} =>
           /\ ~Wrote(r)
           /\ RowsOf(r) = {}
           /\ ag_io[r] = NoIo
           /\ ag_call[r] = Undefined

\* a 400 or 403 is sent by the step in which the request arrives, that
\* step leaves both the store and the provider untouched, and the request
\* takes no later step
C12_RejectedStep ==
  \A r \in Reqs :
    Res(r)'.status \in {400, 403} =>
      \/ /\ sy_pc[r] = "idle" /\ ag_pc[r] = "idle"
         /\ UNCHANGED <<ingested_events, users_ai, upserts, ai_interactions,
                        ag_call, ag_io>>
      \/ /\ Res(r)' = Res(r)
         /\ sy_pc'[r] = sy_pc[r] /\ ag_pc'[r] = ag_pc[r]

\* C12: on the three routes, a request that fails the secret check is
\* answered 403 and one that lacks a required field (eventId or user.id;
\* userId or message; category or commodity) is answered 400, and in both
\* cases no store query, no store write and no provider call is made for it.
C12_ValidationBeforeExternalCalls ==
  []C12_RejectedState /\ [][C12_RejectedStep]_vars

\* a /sync/user request and a listing-suggest request lacking its commodity
\* have been turned away
C12_Witness ==
  /\ \E r \in Reqs : IsSync(r) /\ sy_res[r].status \in {400, 403}
  /\ \E r \in Reqs :
       /\ IsListing(r) /\ ag_res[r].status = 400
       /\ ag_req[r].body.category.t = "string"


\* the harden block of listing-suggest request r ran to its end
HardenedBy(r) == IsListing(r) /\ ag_out[r] # Undefined

\* request r passed verifySecret and the field validation of its route
AdmittedAgent(r) == IsAgent(r) /\ ag_res[r].status \notin {400, 403}

\* C13: when the hardener has produced its result, listing-suggest answers
\* 200 with that result whether or not the interaction insert succeeded;
\* with no row inserted the response carries no interactionId.
C13_RecordingBestEffort ==
  \A r \in Reqs :
    (HardenedBy(r) /\ ag_pc[r] = "done") =>
      /\ ag_res[r].status = 200
      /\ RowsOf(r) = {} => ag_res[r] = SuccessBody(Undefined, ag_out[r])

\* every row holds the hardened result of what the provider returned to the
\* request that inserted it, no request has more than one row, and a 200 of
\* listing-suggest has the one row of its request
C14_RowsState ==
  /\ \A i \in 1..Len(ai_interactions) :
       LET row == ai_interactions[i]
           q == row.req
           facts == inputFacts(ag_req[q].body)
       IN  /\ row.id = i
           /\ IsListing(q)
           /\ ag_raw[q].syn \notin {"absent", "error"}
           /\ ~HardenThrows(ParseOrFallback(ContentOrDefault(ag_raw[q]),
                                           facts.currency, facts.unit))
           /\ row.ai_output =
                Harden(ParseOrFallback(ContentOrDefault(ag_raw[q]),
                                       facts.currency, facts.unit),
                       facts.currency, facts.unit)
  /\ \A r \in Reqs :
       /\ Cardinality(RowsOf(r)) <= 1
       /\ (IsListing(r) /\ ag_res[r].status = 200) =>
            \E i \in RowsOf(r) : ai_interactions[i].ai_output = ag_out[r]

\* the table only grows, by one row at a time, and a row is added by the
\* step that answers 200 to the request it belongs to
C14_RowsStep ==
  /\ Len(ai_interactions') \in {Len(ai_interactions), Len(ai_interactions) + 1}
  /\ SubSeq(ai_interactions', 1, Len(ai_interactions)) = ai_interactions
  /\ \A r \in Reqs :
       (RowsOf(r)' # RowsOf(r)) <=>
         /\ ag_pc[r] = "insert"
         /\ ag_res'[r].status = 200

\* C14: the interaction insert comes after the provider call returned and
\* the hardener finished and stores the hardened result; each successful
\* listing-suggest response has exactly one new record; no step updates or
\* deletes an existing record.
C14_RecordedOncePerSuccess == []C14_RowsState /\ [][C14_RowsStep]_vars

\* two requests were answered 200, each naming its own record
C14_Witness ==
  /\ Len(ai_interactions) = 2
  /\ \A r \in {1, 2} : IsListing(r) /\ ag_res[r].status = 200
  /\ ag_res[1].interactionId # ag_res[2].interactionId

\* C15: when the provider call of a request fails, the request is answered
\* 500 with the fixed message of its route ('Listing suggestion failed',
\* 'Assistant failed') and none of the provider's error detail; it called
\* the provider once and wrote no interaction record.
C15_ProviderFailure ==
  \A r \in Reqs :
    (IsAgent(r) /\ ag_raw[r].syn = "error") =>
      /\ ag_pc[r] = "done"
      /\ ag_res[r] =
           [status |-> 500,
            error |-> IF IsChat(r) THEN "Assistant failed"
                                   ELSE "Listing suggestion failed"]
      /\ ag_res[r].error # ag_raw[r].detail
      /\ ag_io[r].calls = 1
      /\ ag_out[r] = Undefined
      /\ RowsOf(r) = {}

\* the provider failed a user-chat and a listing-suggest request
C15_Witness ==
  /\ \E r \in Reqs : IsChat(r) /\ ag_raw[r].syn = "error"
  /\ \E r \in Reqs : IsListing(r) /\ ag_raw[r].syn = "error"

\* what an admitted request has issued so far: user-chat its two SELECTs and
\* then one provider call, listing-suggest one provider call and then its
\* INSERT; a store query that fails ends the handler
C16_OwnCalls ==
  \A r \in Reqs :
    AdmittedAgent(r) =>
      /\ ag_io[r].calls = IF ag_call[r] = Undefined THEN 0 ELSE 1
      /\ ag_pc[r] \in {"completion", "insert"} => ag_io[r].calls = 1
      /\ ag_raw[r] # Absent => ag_io[r].calls = 1
      /\ (IsChat(r) /\ ag_call[r] # Undefined) => ag_io[r].queries = 2
      /\ (IsChat(r) /\ ag_res[r].status = 200) => ag_io[r].calls = 1
      /\ IsListing(r) =>
           /\ ag_io[r].calls = 1
           /\ ag_io[r].queries = IF ag_out[r] = Undefined THEN 0 ELSE 1

\* whatever the other requests are doing, the continuation a request is
\* waiting for can run
C16_NeverBlocked ==
  \A r \in Reqs :
    /\ ag_pc[r] = "listings" => ENABLED ChatListings(r)
    /\ ag_pc[r] = "transactions" => ENABLED ChatTransactions(r)
    /\ ag_pc[r] = "completion" => ENABLED AgentCompletion(r, SampleOutputs)
    /\ ag_pc[r] = "insert" => ENABLED ListingInsert(r)

\* a step changes the call, the counters, the output and the response of one
\* request at most
C16_OwnStep ==
  Cardinality({r \in Reqs :
     <<ag_call[r], ag_io[r], ag_raw[r], ag_out[r], ag_res[r]>>' #
       <<ag_call[r], ag_io[r], ag_raw[r], ag_out[r], ag_res[r]>>}) <= 1

\* C16: every request that passes authentication and validation issues its
\* own provider call, exactly one, and its own store reads; it neither
\* reuses nor waits for nor is blocked by the call of another request.
C16_RequestsIndependent ==
  [](C16_OwnCalls /\ C16_NeverBlocked) /\ [][C16_OwnStep]_vars

\* two requests with the same body are both waiting for their own call
C16_Witness ==
  /\ ag_pc[1] = "completion" /\ ag_pc[2] = "completion"
  /\ ag_req[1] = ag_req[2]
  /\ ag_io[1].calls = 1 /\ ag_io[2].calls = 1


\* the mode a provider call was compiled for, read off each of its halves
SystemMode(call) == IF call.system = "systemRewrite" THEN "REWRITE" ELSE "CREATE"
UserMode(call) ==
  IF call.user.template = "userPromptRewrite" THEN "REWRITE" ELSE "CREATE"

\* the notes of listing-suggest request r, and their length once trimmed
NotesOf(r) == ag_req[r].body.notes
TrimmedLen(r) == Len(Trim(NotesOf(r).s))

\* C17: an admitted listing-suggest request always gets its provider call
\* compiled; the call is in REWRITE mode exactly when the notes, trimmed of
\* white space, are at least MinUserText (10) long, so 9 characters give
\* CREATE and 10 give REWRITE; absent and empty notes give CREATE.
C17_ModeBoundary ==
  \A r \in Reqs :
    (IsListing(r) /\ SecretOk(r) /\ ~FieldsMissing(r)) =>
      /\ ag_call[r] # Undefined
      /\ ag_res[r] = NoResponse
      /\ SystemMode(ag_call[r]) \in {"REWRITE", "CREATE"}
      /\ NotesOf(r).t = "string" =>
           (SystemMode(ag_call[r]) = "REWRITE" <=> TrimmedLen(r) >= MinUserText)
      /\ (NotesOf(r).t = "string" /\ TrimmedLen(r) = MinUserText - 1) =>
           SystemMode(ag_call[r]) = "CREATE"
      /\ NotesOf(r) \in {Undefined, JNull, JStr("")} =>
           SystemMode(ag_call[r]) = "CREATE"

\* padded notes of exactly the threshold length selected REWRITE
C17_Witness ==
  \E r \in Reqs :
    /\ IsListing(r) /\ ag_call[r] # Undefined
    /\ NotesOf(r).t = "string"
    /\ Len(NotesOf(r).s) > MinUserText
    /\ TrimmedLen(r) = MinUserText
    /\ SystemMode(ag_call[r]) = "REWRITE"

\* the request carries the secret as a bearer token
BearerOk(r) ==
  IsAgent(r) /\ ag_req[r].headers.authorization = JStr("Bearer " \o SECRET.s)

\* request r was turned away with 403 before its handler ran
Forbidden(r) ==
  /\ Res(r) = [status |-> 403, error |-> "Unauthorized"]
  /\ ~Wrote(r)
  /\ RowsOf(r) = {}
  /\ ag_io[r] = NoIo
  /\ ag_call[r] = Undefined

C19_DeterministicPrompt ==
  /\ \A r, q \in Reqs :
       (IsListing(r) /\ IsListing(q) /\ ag_req[r].body = ag_req[q].body
          /\ ag_call[r] # Undefined /\ ag_call[q] # Undefined) =>
         ag_call[r] = ag_call[q]
  /\ \A r \in Reqs :
       (IsListing(r) /\ ag_call[r] # Undefined) =>
         /\ SystemMode(ag_call[r]) = UserMode(ag_call[r])
         /\ ag_call[r].temperature = ListingTemperature
  /\ \A r \in Reqs :
       (IsChat(r) /\ ag_call[r] # Undefined) =>
         ag_call[r].temperature = ChatTemperature

\* the same rewrite body was compiled twice, the second time after the first
\* request had been recorded
C19_Witness ==
  /\ IsListing(1) /\ IsListing(2)
  /\ ag_req[1].body = ag_req[2].body
  /\ ag_call[1] # Undefined /\ ag_call[2] # Undefined
  /\ SystemMode(ag_call[1]) = "REWRITE"
  /\ Len(ai_interactions) = 1
  /\ ag_pc[2] = "completion"

\* C20: when the parsed description is not a string, the hardened
\* description is "", the confidence is low and missingFields ends with
\* "Description missing" followed by "Description too short"; when the
\* model had supplied "Description too short" itself, it ends with
\* "Description missing" alone.
C20_DescriptionTypeCheck ==
  (Hardened /\ TypeOf(parsed0.description) # "string") =>
    LET mf == parsed.missingFields.items
        n == Len(mf)
    IN  /\ parsed.description = JStr("")
        /\ parsed.confidence = Low
        /\ n >= 1
        /\ IF Supplied(DescTooShortMsg) > 0
             THEN mf[n] = DescMissingMsg
             ELSE /\ n >= 2
                  /\ mf[n - 1] = DescMissingMsg
                  /\ mf[n] = DescTooShortMsg

\* a number for a description, next to a raw "high" and a well-formed price,
\* was replaced and reported with both messages
C20_Witness ==
  /\ Hardened
  /\ parsed0.description = JNum(5)
  /\ parsed0.confidence = JStr("high")
  /\ parsed.missingFields = JArr(<<DescMissingMsg, DescTooShortMsg>>)


\* the entries of missingFields as the harden block finds them
SuppliedEntries ==
  IF parsed0.missingFields.t = "array" THEN parsed0.missingFields.items
                                       ELSE <<>>

\* the entries the harden block added behind them
AddedEntries ==
  SubSeq(parsed.missingFields.items, Len(SuppliedEntries) + 1,
         Len(parsed.missingFields.items))

\* the own messages in detection order, any of them left out
DetectionOrders ==
  {<<>>, <<PriceIncompleteMsg>>, <<DescMissingMsg>>, <<DescTooShortMsg>>,
   <<PriceIncompleteMsg, DescMissingMsg>>,
   <<PriceIncompleteMsg, DescTooShortMsg>>,
   <<DescMissingMsg, DescTooShortMsg>>,
   <<PriceIncompleteMsg, DescMissingMsg, DescTooShortMsg>>}

\* C21: the harden block only appends to missingFields: the entries of a
\* parsed array stay, in their order, as a prefix of the hardened array, and
\* what follows are the block's own messages in detection order, "Price
\* suggestion incomplete" before "Description missing" before "Description
\* too short".
C21_AppendOnlyInDetectionOrder ==
  Hardened =>
    /\ Len(parsed.missingFields.items) >= Len(SuppliedEntries)
    /\ SubSeq(parsed.missingFields.items, 1, Len(SuppliedEntries)) =
         SuppliedEntries
    /\ AddedEntries \in DetectionOrders

\* two supplied entries are followed by the three messages
C21_Witness ==
  /\ Hardened
  /\ Len(SuppliedEntries) = 2
  /\ AddedEntries = <<PriceIncompleteMsg, DescMissingMsg, DescTooShortMsg>>


\* the hardened result written as JSON and put through lines 336-381 again
Rehardened == ParseAndHarden(JSONStringify(parsed), currency, unit)

\* C22: hardening is idempotent: the hardened result, serialised to JSON and
\* hardened again with the same caller currency and unit, comes back the
\* same (description, priceSuggestion, confidence and missingFields, no
\* message added a second time).
C22_HardenIdempotent ==
  Hardened => (~Rehardened.threw /\ Rehardened.parsed = parsed)

\* the round trip does come back the same for callers whose currency and unit
\* are strings
HardenIdempotentForStringCaller ==
  (Hardened /\ currency.t = "string" /\ unit.t = "string") =>
    (~Rehardened.threw /\ Rehardened.parsed = parsed)


\* C23: the envelope of a 200 of listing-suggest is the server's: success is
\* true and interactionId is the id the interaction insert of the same
\* request returned, whatever keys the object of the model carries.
C23_EnvelopeServerControlled ==
  \A r \in Reqs :
    (IsListing(r) /\ ag_res[r].status = 200) =>
      /\ ag_res[r].success = JBool(TRUE)
      /\ \E i \in RowsOf(r) :
           ag_res[r].interactionId = JNum(ai_interactions[i].id)


\* the profile table holds a row for the user of request r
HasProfile(r) == \E row \in users_ai : row.user_id = sy_req[r].user.id

\* every ledger row was inserted by a request that is answered
\* {success:true} and whose profile upsert was applied; a {success:true}
\* request has its profile row and its one ledger row; the eventId of a
\* {skipped:true} request is in the ledger
C24_OrderState ==
  /\ \A i \in 1..Len(ingested_events) :
       \E r \in Reqs :
         /\ sy_res[r] = Succeeded
         /\ sy_req[r].eventId = ingested_events[i]
         /\ Wrote(r) /\ HasProfile(r)
  /\ \A r \in Reqs :
       /\ sy_res[r] = Succeeded =>
            /\ Wrote(r) /\ HasProfile(r)
            /\ SelectEvent(ingested_events, sy_req[r].eventId) = 1
       /\ sy_res[r] = Skipped =>
            SelectEvent(ingested_events, sy_req[r].eventId) > 0

\* a ledger row is added by a request whose profile upsert was applied in an
\* earlier step; {success:true} is sent with the ledger insert, after the
\* upsert; {skipped:true} is sent by the step that finds the eventId in the
\* ledger
C24_OrderStep ==
  /\ ingested_events' # ingested_events =>
       \E r \in Reqs :
         /\ sy_pc[r] = "insert" /\ Wrote(r) /\ HasProfile(r)
         /\ ingested_events' = Append(ingested_events, sy_req[r].eventId)
         /\ sy_res'[r] = Succeeded
  /\ \A r \in Reqs :
       /\ (sy_res'[r] = Succeeded /\ sy_res[r] # Succeeded) =>
            /\ sy_pc[r] = "insert" /\ Wrote(r) /\ HasProfile(r)
            /\ SelectEvent(ingested_events', sy_req[r].eventId) = 1
       /\ (sy_res'[r] = Skipped /\ sy_res[r] # Skipped) =>
            /\ sy_pc[r] = "select"
            /\ SelectEvent(ingested_events, sy_req[r].eventId) > 0
            /\ UNCHANGED <<ingested_events, users_ai, upserts>>

\* C24: in /sync/user an eventId is in the ledger only if the profile upsert
\* of the request that inserted it was applied earlier; {success:true} is
\* sent only after both the upsert and the ledger insert of the request
\* were applied; {skipped:true} is sent only if the ledger held the eventId
\* when the request checked it.
C24_LedgerAfterProfile == []C24_OrderState /\ [][C24_OrderStep]_vars

\* one request was answered {success:true} and another, with the same
\* eventId, {skipped:true}
C24_Witness ==
  \E r, q \in Reqs :
    /\ sy_res[r] = Succeeded /\ sy_res[q] = Skipped
    /\ sy_req[r].eventId = sy_req[q].eventId
    /\ Len(ingested_events) = 1


Arrived(r) == IsSync(r) \/ IsAgent(r)
Answered(r) == Res(r).status \in {200, 400, 403, 500}

\* a request has a response exactly when its handler has ended
C25_OneResponseState ==
  \A r \in Reqs :
    /\ Res(r).status \in {0, 200, 400, 403, 500}
    /\ Arrived(r) => (Answered(r) <=> (sy_pc[r] = "done" \/ ag_pc[r] = "done"))

\* a request that has its response never gets another and takes no step
C25_OneResponseStep ==
  \A r \in Reqs :
    Answered(r) =>
      /\ Res(r)' = Res(r)
      /\ sy_pc'[r] = sy_pc[r] /\ ag_pc'[r] = ag_pc[r]

\* C25: with every store query and provider call returning or failing in
\* the end, each request to /sync/user, /agent/user-chat and
\* /agent/listing-suggest is eventually sent a response (200, 400, 403 or
\* 500) and is never sent a second one, whatever the other requests do.
C25_ExactlyOneResponse ==
  /\ \A r \in Reqs : [](Arrived(r) => <>Answered(r))
  /\ []C25_OneResponseState
  /\ [][C25_OneResponseStep]_vars

\* a /sync/user request and a listing-suggest request have their responses,
\* one of them a 500
C25_Witness ==
  /\ \E r \in Reqs : IsSync(r) /\ Answered(r)
  /\ \E r \in Reqs : IsListing(r) /\ ag_res[r].status = 500

====
